---- MODULE Spec2Model ----
(***************************************************************************)
(* Model of src/shell.rs: the REPL classifier shell_exec and the driver    *)
(* loop run_shell.  The compiler, the executor and the line editor are     *)
(* external collaborators: each of their results is an input chosen from a *)
(* small set of the outcomes their interface allows.                       *)
(*                                                                         *)
(* Text is a sequence of one-character strings.  The model is the          *)
(* non-windows build (the cfg(windows) line-ending replacement is absent). *)
(***************************************************************************)
EXTENDS Integers, Sequences, FiniteSets, TLC

VARIABLES
    full_input,        \* run_shell: the input buffer
    continuing_block,  \* run_shell: waiting for the blank line that ends a block
    continuing_line,   \* run_shell: the last verdict was ContinueLine
    prompt_name,       \* run_shell: the prompt chosen for the latest read
    pc,                \* run_shell: in the loop, or how it ended
    history,           \* entries accepted by repl.add_history_entry
    saved,             \* repl.save_history has been called
    executed,          \* sources of the code objects given to vm.run_code_obj
    run,               \* observation: the iterations since the buffer was last
                       \* empty at the start of an iteration
    nreads             \* number of reads after which the loop went on or panicked

vars == <<full_input, continuing_block, continuing_line, prompt_name, pc,
          history, saved, executed, run, nreads>>

(* ------------------------------ bounds -------------------------------- *)

MaxReads == 3

(* ------------------------------- text --------------------------------- *)

NL == "\n"

Quotes == {"'", "\""}

Whitespace == {" ", "\t", NL}

\* The lines the line editor may return (without their line break).
Lines ==
    { <<>>,
      <<"'">>,
      <<"\"", "\"", "\"">>,
      <<"a", "a", "a", " ">> }

\* variant: the line is recorded as it was read
trim_end_none(s) == s

\* str::trim_end
RECURSIVE trim_end(_)
trim_end(s) ==
    IF s = <<>> THEN s
    ELSE IF s[Len(s)] \in Whitespace THEN trim_end(SubSeq(s, 1, Len(s) - 1))
    ELSE s

\* str::starts_with
starts_with(msg, prefix) ==
    /\ Len(msg) >= Len(prefix)
    /\ SubSeq(msg, 1, Len(prefix)) = prefix

(* ------------------------ compiler diagnostics ------------------------ *)

IndentedBlockPrefix == <<"Expected", "an", "indented", "block">>

\* Messages of ParseErrorType::OtherError, as sequences of words.
OtherMessages ==
    { <<"Expected", "an", "indented", "block", "after", "if">>,
      <<"Expected", "an", "expression">> }

NoMsg == <<>>

Outcome(k, l, m) == [kind |-> k, loc |-> l, msg |-> m]

\* The results vm.compile may give for a source: success, or one of the
\* CompileError shapes shell_exec distinguishes.
CompileOutcomes(source) ==
    { Outcome(k, 0, NoMsg) :
        k \in {"Ok", "Eof", "UnterminatedTripleQuotedString",
               "IndentationError", "OtherParse", "NotParse"} }
    \cup { Outcome("UnclosedStringError", l, NoMsg) : l \in 0..Len(source) }
    \cup { Outcome("OtherError", 0, m) : m \in OtherMessages }

NoCompile == Outcome("None", 0, NoMsg)

\* The results vm.run_code_obj may give: a value, or an exception.
RunOutcomes == {"Ok", "Exception", "SystemExit"}

\* The code is run only if there is a code object, and then gives a result.
RunOutcomesAfter(comp) == IF comp.kind = "Ok" THEN RunOutcomes ELSE {"Ok"}

\* The results repl.save_history may give, where it is called.
SaveOutcomes(called) == IF called THEN BOOLEAN ELSE {TRUE}

(* ----------------------------- shell_exec ----------------------------- *)

Verdict(r, x, e) == [result |-> r, ran |-> x, err |-> e]

\* variant: only the character after the one at loc is compared
triple_at_two(source, loc) ==
    /\ loc + 2 <= Len(source)
    /\ source[loc + 2] = source[loc + 1]

\* source.chars().nth(loc) is a character equal to the two after it
triple_at(source, loc) ==
    /\ loc + 1 <= Len(source)
    /\ loc + 3 <= Len(source)
    /\ source[loc + 2] = source[loc + 1]
    /\ source[loc + 3] = source[loc + 1]

\* variant: an indentation error is always worth throwing
bad_error_always(comp, cb) == TRUE

\* variant: an indentation error is never worth throwing
bad_error_never(comp, cb) ==
    IF comp.kind = "IndentationError" THEN FALSE
    ELSE IF comp.kind = "OtherError"
         THEN ~starts_with(comp.msg, IndentedBlockPrefix)
    ELSE TRUE

bad_error(comp, cb) ==
    IF comp.kind = "IndentationError" THEN cb
    ELSE IF comp.kind = "OtherError"
         THEN IF starts_with(comp.msg, IndentedBlockPrefix) THEN cb ELSE TRUE
    ELSE TRUE

\* variant: an empty line does not make the error worth throwing
compile_failed_lenient(source, empty_line_given, cb, comp) ==
    IF comp.kind = "Eof" THEN Verdict("ContinueLine", FALSE, "None")
    ELSE IF comp.kind = "UnterminatedTripleQuotedString"
         THEN Verdict("ContinueLine", FALSE, "None")
    ELSE IF comp.kind = "UnclosedStringError" /\ triple_at(source, comp.loc)
         THEN Verdict("ContinueLine", FALSE, "None")
    ELSE IF bad_error(comp, cb)
         THEN Verdict("PyErr", FALSE, "SyntaxError")
    ELSE Verdict("ContinueBlock", FALSE, "None")

\* the code after a failed compile (the Err arms of the match)
compile_failed(source, empty_line_given, cb, comp) ==
    IF comp.kind = "Eof" THEN Verdict("ContinueLine", FALSE, "None")
    ELSE IF comp.kind = "UnterminatedTripleQuotedString"
         THEN Verdict("ContinueLine", FALSE, "None")
    ELSE IF comp.kind = "UnclosedStringError" /\ triple_at(source, comp.loc)
         THEN Verdict("ContinueLine", FALSE, "None")
    ELSE IF empty_line_given \/ bad_error(comp, cb)
         THEN Verdict("PyErr", FALSE, "SyntaxError")
    ELSE Verdict("ContinueBlock", FALSE, "None")

\* variant: a compiled unit is run only outside a block
shell_exec_outside(source, empty_line_given, cb, comp, runres) ==
    IF comp.kind = "Ok" THEN
        IF ~cb THEN
            IF runres = "Ok" THEN Verdict("Ok", TRUE, "None")
            ELSE Verdict("PyErr", TRUE, runres)
        ELSE Verdict("Ok", FALSE, "None")
    ELSE compile_failed(source, empty_line_given, cb, comp)

\* variant: a compiled unit is always run
shell_exec_eager(source, empty_line_given, cb, comp, runres) ==
    IF comp.kind = "Ok" THEN
        IF runres = "Ok" THEN Verdict("Ok", TRUE, "None")
        ELSE Verdict("PyErr", TRUE, runres)
    ELSE compile_failed(source, empty_line_given, cb, comp)

shell_exec(source, empty_line_given, cb, comp, runres) ==
    IF comp.kind = "Ok" THEN
        IF empty_line_given \/ ~cb THEN
            IF runres = "Ok" THEN Verdict("Ok", TRUE, "None")
            ELSE Verdict("PyErr", TRUE, runres)
        ELSE Verdict("Ok", FALSE, "None")
    ELSE compile_failed(source, empty_line_given, cb, comp)

(* ------------------------------ run_shell ----------------------------- *)

\* variant: the prompt follows the block mode only
select_prompt_block(cb, cl) == IF cb THEN "ps2" ELSE "ps1"

select_prompt(cb, cl) == IF cb \/ cl THEN "ps2" ELSE "ps1"

\* variant: the line replaces the buffer
append_line_replace(buf, line) == line \o <<NL>>

\* variant: the line break after the line is left out
append_line_bare(buf, line) == IF buf = <<>> THEN line ELSE buf \o line

\* the line is appended to the buffer, followed by a line break
append_line(buf, line) ==
    (IF buf = <<>> THEN line ELSE buf \o line) \o <<NL>>

\* variant: a statement that completes outside a block stays in the buffer
apply_result_keep(result, buf, cb, empty_line_given) ==
    IF result = "Ok" THEN
        IF cb /\ empty_line_given
        THEN [buf |-> <<>>, cb |-> FALSE, cl |-> FALSE]
        ELSE [buf |-> buf, cb |-> cb, cl |-> FALSE]
    ELSE IF result = "ContinueLine" THEN [buf |-> buf, cb |-> cb, cl |-> TRUE]
    ELSE IF result = "ContinueBlock" THEN [buf |-> buf, cb |-> TRUE, cl |-> FALSE]
    ELSE [buf |-> <<>>, cb |-> FALSE, cl |-> FALSE]

\* variant: ContinueLine enters the block mode as ContinueBlock does
apply_result_block(result, buf, cb, empty_line_given) ==
    IF result = "Ok" THEN
        IF cb THEN
            IF empty_line_given
            THEN [buf |-> <<>>, cb |-> FALSE, cl |-> FALSE]
            ELSE [buf |-> buf, cb |-> cb, cl |-> FALSE]
        ELSE [buf |-> <<>>, cb |-> cb, cl |-> FALSE]
    ELSE IF result = "ContinueLine" THEN [buf |-> buf, cb |-> TRUE, cl |-> TRUE]
    ELSE IF result = "ContinueBlock" THEN [buf |-> buf, cb |-> TRUE, cl |-> FALSE]
    ELSE [buf |-> <<>>, cb |-> FALSE, cl |-> FALSE]

\* variant: inside a block an Ok result never ends the block
apply_result_hold(result, buf, cb, empty_line_given) ==
    IF result = "Ok" THEN
        IF cb THEN [buf |-> buf, cb |-> cb, cl |-> FALSE]
        ELSE [buf |-> <<>>, cb |-> cb, cl |-> FALSE]
    ELSE IF result = "ContinueLine" THEN [buf |-> buf, cb |-> cb, cl |-> TRUE]
    ELSE IF result = "ContinueBlock" THEN [buf |-> buf, cb |-> TRUE, cl |-> FALSE]
    ELSE [buf |-> <<>>, cb |-> FALSE, cl |-> FALSE]

\* variant: an Ok result always clears the buffer
apply_result_clear(result, buf, cb, empty_line_given) ==
    IF result = "Ok" THEN
        IF cb /\ empty_line_given
        THEN [buf |-> <<>>, cb |-> FALSE, cl |-> FALSE]
        ELSE [buf |-> <<>>, cb |-> cb, cl |-> FALSE]
    ELSE IF result = "ContinueLine" THEN [buf |-> buf, cb |-> cb, cl |-> TRUE]
    ELSE IF result = "ContinueBlock" THEN [buf |-> buf, cb |-> TRUE, cl |-> FALSE]
    ELSE [buf |-> <<>>, cb |-> FALSE, cl |-> FALSE]

\* variant: an error leaves the block mode but keeps the buffer
apply_result_err(result, buf, cb, empty_line_given) ==
    IF result = "Ok" THEN
        IF cb THEN
            IF empty_line_given
            THEN [buf |-> <<>>, cb |-> FALSE, cl |-> FALSE]
            ELSE [buf |-> buf, cb |-> cb, cl |-> FALSE]
        ELSE [buf |-> <<>>, cb |-> cb, cl |-> FALSE]
    ELSE IF result = "ContinueLine" THEN [buf |-> buf, cb |-> cb, cl |-> TRUE]
    ELSE IF result = "ContinueBlock" THEN [buf |-> buf, cb |-> TRUE, cl |-> FALSE]
    ELSE [buf |-> buf, cb |-> FALSE, cl |-> FALSE]

\* variant: the blank line that ends a block clears the buffer only
apply_result_stay(result, buf, cb, empty_line_given) ==
    IF result = "Ok" THEN
        IF cb THEN
            IF empty_line_given
            THEN [buf |-> <<>>, cb |-> cb, cl |-> FALSE]
            ELSE [buf |-> buf, cb |-> cb, cl |-> FALSE]
        ELSE [buf |-> <<>>, cb |-> cb, cl |-> FALSE]
    ELSE IF result = "ContinueLine" THEN [buf |-> buf, cb |-> cb, cl |-> TRUE]
    ELSE IF result = "ContinueBlock" THEN [buf |-> buf, cb |-> TRUE, cl |-> FALSE]
    ELSE [buf |-> <<>>, cb |-> FALSE, cl |-> FALSE]

\* the match on shell_exec's result: the new buffer and flags
apply_result(result, buf, cb, empty_line_given) ==
    IF result = "Ok" THEN
        IF cb THEN
            IF empty_line_given
            THEN [buf |-> <<>>, cb |-> FALSE, cl |-> FALSE]
            ELSE [buf |-> buf, cb |-> cb, cl |-> FALSE]
        ELSE [buf |-> <<>>, cb |-> cb, cl |-> FALSE]
    ELSE IF result = "ContinueLine" THEN [buf |-> buf, cb |-> cb, cl |-> TRUE]
    ELSE IF result = "ContinueBlock" THEN [buf |-> buf, cb |-> TRUE, cl |-> FALSE]
    ELSE [buf |-> <<>>, cb |-> FALSE, cl |-> FALSE]

\* exc.fast_isinstance(vm.ctx.exceptions.system_exit)
is_system_exit(err) == err = "SystemExit"

\* where run_shell is after repl.save_history(..).unwrap()
after_save(save_ok, next_pc) == IF save_ok THEN next_pc ELSE "panicked"

Iteration(k, line, hist_ok, prompt, cb, source, comp, v, reported) ==
    [kind |-> k, line |-> line, hist_ok |-> hist_ok, prompt |-> prompt,
     cb |-> cb, source |-> source, comp |-> comp, result |-> v.result,
     ran |-> v.ran, err |-> v.err, reported |-> reported]

\* of an earlier iteration, the line and the verdict are kept
Earlier(rec) == [rec EXCEPT !.comp = NoCompile, !.source = <<>>]

Observe(rec) ==
    IF full_input = <<>> THEN <<rec>>
    ELSE Append([i \in 1..Len(run) |-> Earlier(run[i])], rec)

Last == run[Len(run)]

Init ==
    /\ full_input = <<>>
    /\ continuing_block = FALSE
    /\ continuing_line = FALSE
    /\ prompt_name = "ps1"
    /\ pc = "loop"
    /\ history = <<>>
    /\ saved = FALSE
    /\ executed = <<>>
    /\ run = <<>>
    /\ nreads = 0

\* one iteration whose ReadlineResult::Line meets a failing
\* add_history_entry: unwrap panics before the line reaches the buffer
ReadLineHistoryFails ==
    /\ pc = "loop"
    /\ nreads < MaxReads
    /\ prompt_name' = select_prompt(continuing_block, continuing_line)
    /\ continuing_line' = FALSE
    /\ \E line \in Lines :
         run' = Observe(Iteration("Line", line, FALSE, prompt_name',
                                  continuing_block, <<>>, NoCompile,
                                  Verdict("None", FALSE, "None"), FALSE))
    /\ pc' = "panicked"
    /\ nreads' = nreads + 1
    /\ UNCHANGED <<full_input, continuing_block, history, saved, executed>>

\* one iteration with ReadlineResult::Line: prompt, record, append,
\* classify, apply the verdict, report or return the error
ReadLine ==
    /\ pc = "loop"
    /\ nreads < MaxReads
    /\ prompt_name' = select_prompt(continuing_block, continuing_line)
    /\ \E line \in Lines :
       LET empty_line_given == line = <<>>
           buf == append_line(full_input, line)
       IN \E comp \in CompileOutcomes(buf) :
          \E runres \in RunOutcomesAfter(comp) :
          LET v == shell_exec(buf, empty_line_given, continuing_block, comp,
                              runres)
              a == apply_result(v.result, buf, continuing_block,
                                empty_line_given)
              exits == v.err # "None" /\ is_system_exit(v.err)
              reported == v.err # "None" /\ ~is_system_exit(v.err)
          IN /\ history' = Append(history, trim_end(line))
             /\ full_input' = a.buf
             /\ continuing_block' = a.cb
             /\ continuing_line' = a.cl
             /\ executed' = IF v.ran THEN Append(executed, buf) ELSE executed
             /\ saved' = (saved \/ exits)
             /\ \E save_ok \in SaveOutcomes(exits) :
                  pc' = IF exits THEN after_save(save_ok, "returned_err")
                        ELSE "loop"
             /\ run' = Observe(Iteration("Line", line, TRUE, prompt_name',
                                         continuing_block, buf, comp, v,
                                         reported))
    /\ nreads' = nreads + 1

\* variant: the interrupt leaves the block mode and the buffer alone
ReadInterruptKeeps ==
    /\ pc = "loop"
    /\ nreads < MaxReads
    /\ prompt_name' = select_prompt(continuing_block, continuing_line)
    /\ continuing_line' = FALSE
    /\ run' = Observe(Iteration("Interrupt", <<>>, TRUE, prompt_name',
                                continuing_block, <<>>, NoCompile,
                                Verdict("None", FALSE, "KeyboardInterrupt"),
                                TRUE))
    /\ pc' = "loop"
    /\ nreads' = nreads + 1
    /\ UNCHANGED <<full_input, continuing_block, history, saved, executed>>

\* one iteration with ReadlineResult::Interrupt
ReadInterrupt ==
    /\ pc = "loop"
    /\ nreads < MaxReads
    /\ prompt_name' = select_prompt(continuing_block, continuing_line)
    /\ continuing_line' = FALSE
    /\ continuing_block' = FALSE
    /\ full_input' = <<>>
    /\ run' = Observe(Iteration("Interrupt", <<>>, TRUE, prompt_name',
                                continuing_block, <<>>, NoCompile,
                                Verdict("None", FALSE, "KeyboardInterrupt"),
                                TRUE))
    /\ pc' = "loop"
    /\ nreads' = nreads + 1
    /\ UNCHANGED <<history, saved, executed>>

\* one iteration whose read outcome breaks out of the loop, then the final
\* save_history
Break(k) ==
    /\ pc = "loop"
    /\ prompt_name' = select_prompt(continuing_block, continuing_line)
    /\ continuing_line' = FALSE
    /\ \E save_ok \in BOOLEAN : pc' = after_save(save_ok, "returned_ok")
    /\ saved' = TRUE
    /\ run' = Observe(Iteration(k, <<>>, TRUE, prompt_name', continuing_block,
                                <<>>, NoCompile,
                                Verdict("None", FALSE, "None"), FALSE))
    /\ UNCHANGED <<full_input, continuing_block, history, executed, nreads>>

ReadEof == Break("Eof")

ReadOther == Break("Other")

ReadIo == Break("Io")

Next ==
    \/ ReadLineHistoryFails
    \/ ReadLine
    \/ ReadInterrupt
    \/ ReadEof
    \/ ReadOther
    \/ ReadIo

Spec == Init /\ [][Next]_vars

(* --------------------------- observations ----------------------------- *)

\* the latest iteration read a line and gave the buffer to shell_exec
Classified == run # <<>> /\ Last.kind = "Line" /\ Last.hist_ok

\* the character at the diagnostic's offset in the compiled source is a quote
OpensWithQuote(rec) ==
    /\ rec.comp.loc < Len(rec.source)
    /\ rec.source[rec.comp.loc + 1] \in Quotes

\* three equal quotes start at the diagnostic's offset in the compiled source
OpensWithTripleQuote(rec) ==
    /\ rec.comp.loc + 3 <= Len(rec.source)
    /\ \E q \in Quotes :
         SubSeq(rec.source, rec.comp.loc + 1, rec.comp.loc + 3) = <<q, q, q>>

\* the diagnostic is the generic one whose message asks for an indented block
AsksIndentedBlock(comp) ==
    /\ comp.kind = "OtherError"
    /\ Len(comp.msg) >= 4
    /\ comp.msg[1] = "Expected" /\ comp.msg[2] = "an"
    /\ comp.msg[3] = "indented" /\ comp.msg[4] = "block"

LastExecuted == executed[Len(executed)]

(* ------------------------------- claims ------------------------------- *)

\* C1 as stated: a compile failure reported as an unterminated string gives
\* ContinueLine whatever the opening quote form (', ", or a triple quote) and
\* whatever the two flags.
C1_AnyQuoteContinuesLine ==
    Classified =>
        /\ Last.comp.kind = "UnterminatedTripleQuotedString"
              => Last.result = "ContinueLine"
        /\ Last.comp.kind = "UnclosedStringError" /\ OpensWithQuote(Last)
              => Last.result = "ContinueLine"

\* C1 amended: an unterminated string gives ContinueLine, for both values of
\* each flag, when it is reported as an unterminated triple-quoted string or
\* when three equal quotes start at the diagnostic's offset; an unclosed
\* string opened by a single ' or " is a syntax error (Failed), nothing run.
C1_TripleQuoteContinuesLine ==
    Classified =>
        /\ Last.comp.kind = "UnterminatedTripleQuotedString"
              => Last.result = "ContinueLine"
        /\ Last.comp.kind = "UnclosedStringError" /\ OpensWithQuote(Last)
              => IF OpensWithTripleQuote(Last)
                 THEN Last.result = "ContinueLine"
                 ELSE /\ Last.result = "PyErr"
                      /\ Last.err = "SyntaxError"
                      /\ ~Last.ran

\* C1 case: inside a block, a blank line, the buffer still an unclosed
\* triple-quoted string, and next to it a single quote reported as a failure
C1_Witness ==
    /\ Classified
    /\ Last.comp.kind = "UnclosedStringError"
    /\ OpensWithTripleQuote(Last)
    /\ Last.cb
    /\ Last.line = <<>>
    /\ Last.result = "ContinueLine"

\* C2 as stated: an indentation diagnostic with already_continuing_block false
\* never gives a reportable error, for every value of had_empty_line.
C2_IndentationNeverFails ==
    Classified /\ Last.comp.kind = "IndentationError" /\ ~Last.cb
        => Last.result # "PyErr"

\* C2 amended: an indentation diagnostic with already_continuing_block false
\* gives ContinueBlock (not a reportable error) when the line just read is
\* not empty, and a reportable syntax error when it is empty.
C2_IndentationOutsideBlock ==
    Classified /\ Last.comp.kind = "IndentationError" /\ ~Last.cb
        => IF Last.line # <<>>
           THEN Last.result = "ContinueBlock" /\ continuing_block
           ELSE Last.result = "PyErr" /\ Last.err = "SyntaxError"

C2_Witness ==
    /\ Classified
    /\ Last.comp.kind = "IndentationError"
    /\ ~Last.cb
    /\ Last.line # <<>>
    /\ Last.result = "ContinueBlock"

C4_FreshCompiledLineRuns ==
    /\ Classified
    /\ Len(run) = 1
    /\ ~Last.cb
    /\ Last.prompt = "ps1"
    /\ Last.comp.kind = "Ok"
    => /\ Last.ran
       /\ executed # <<>>
       /\ LastExecuted = Last.line \o <<NL>>
       /\ full_input = <<>>
       /\ ~continuing_block

C4_Witness ==
    /\ Classified
    /\ Len(run) = 1
    /\ Last.prompt = "ps1"
    /\ Last.comp.kind = "Ok"
    /\ Last.line # <<>>
    /\ Last.err = "Exception"
    /\ Last.ran
    /\ full_input = <<>>

\* C5: whatever the state, an interrupt turns the block mode off and empties
\* the buffer, the loop goes on, and the next prompt is the primary one.
C5_InterruptResets ==
    [][ /\ Last'.kind = "Interrupt"
           => /\ ~continuing_block'
              /\ full_input' = <<>>
              /\ pc' = "loop"
        /\ run # <<>> /\ Last.kind = "Interrupt"
           => prompt_name' = "ps1" ]_vars

\* C5 case: the interrupt arrives inside a block, the buffer not empty
C5_Witness ==
    /\ run # <<>>
    /\ Last.kind = "Interrupt"
    /\ Last.cb
    /\ Len(run) = 3
    /\ full_input = <<>>
    /\ pc = "loop"

\* C6: inside a block, a blank line with which the buffer compiles runs the
\* unit in that iteration; afterwards the block mode is off, the buffer empty.
C6_BlankLineCompletesBlock ==
    /\ Classified
    /\ Last.cb
    /\ Last.line = <<>>
    /\ Last.comp.kind = "Ok"
    => /\ Last.ran
       /\ executed # <<>>
       /\ LastExecuted = Last.source
       /\ ~continuing_block
       /\ full_input = <<>>

C6_Witness ==
    /\ Classified
    /\ Last.cb
    /\ Last.line = <<>>
    /\ Last.comp.kind = "Ok"
    /\ Last.result = "Ok"
    /\ Last.ran
    /\ ~continuing_block

\* C7: from Fresh, a block header answered by an indentation diagnostic and
\* then a non-empty body line with which the buffer compiles: the block mode
\* is on after each, nothing is run, and the buffer is header, line break,
\* body, line break.
C7_HeaderThenBody ==
    [][ /\ Classified
        /\ Len(run) = 1
        /\ Last.prompt = "ps1"
        /\ Last.line # <<>>
        /\ Last.comp.kind = "IndentationError" \/ AsksIndentedBlock(Last.comp)
        /\ Last'.kind = "Line"
        /\ Last'.hist_ok
        /\ Len(run') = 2
        /\ Last'.line # <<>>
        /\ Last'.comp.kind = "Ok"
        => /\ ~Last.cb
           /\ Last.result = "ContinueBlock"
           /\ ~Last.ran
           /\ continuing_block
           /\ full_input = Last.line \o <<NL>>
           /\ Last'.cb
           /\ Last'.result = "Ok"
           /\ ~Last'.ran
           /\ executed' = executed
           /\ continuing_block'
           /\ full_input' = Last.line \o <<NL>> \o Last'.line \o <<NL>> ]_vars

C7_Witness ==
    /\ Classified
    /\ Len(run) = 2
    /\ run[1].result = "ContinueBlock"
    /\ ~run[1].cb
    /\ Last.line # <<>>
    /\ Last.comp.kind = "Ok"
    /\ continuing_block
    /\ full_input = run[1].line \o <<NL>> \o Last.line \o <<NL>>

\* C8: block header, non-empty body line, blank line: nothing is run after
\* the header or the body, one unit is run at the blank line, compiled from
\* the whole buffer, and the buffer is empty afterwards.
C8_BlockRunsOnce ==
    [][ /\ Classified
        /\ Len(run) = 2
        /\ run[1].kind = "Line"
        /\ run[1].line # <<>>
        /\ run[1].result = "ContinueBlock"
        /\ Last.line # <<>>
        /\ Last.comp.kind = "Ok"
        /\ Last'.kind = "Line"
        /\ Last'.hist_ok
        /\ Len(run') = 3
        /\ Last'.line = <<>>
        /\ Last'.comp.kind = "Ok"
        => /\ ~run[1].ran
           /\ ~Last.ran
           /\ Last'.ran
           /\ executed' =
                Append(executed,
                       run[1].line \o <<NL>> \o Last.line \o <<NL, NL>>)
           /\ full_input' = <<>>
           /\ ~continuing_block' ]_vars

C8_Witness ==
    /\ Classified
    /\ Len(run) = 3
    /\ run[1].result = "ContinueBlock"
    /\ run[2].line # <<>>
    /\ run[2].result = "Ok"
    /\ ~run[2].ran
    /\ Last.line = <<>>
    /\ Last.result = "Ok"
    /\ Last.ran
    /\ LastExecuted = run[1].line \o <<NL>> \o run[2].line \o <<NL, NL>>
    /\ full_input = <<>>

\* C9: from Fresh, a line answered by lexical end-of-input and then a line
\* with which the buffer compiles: one unit is run, right after the second
\* line, and the block mode is off throughout (the secondary prompt of the
\* second read comes from the line continuation).
C9_LineContinuationRunsOnce ==
    [][ /\ Classified
        /\ Len(run) = 1
        /\ Last.prompt = "ps1"
        /\ Last.comp.kind = "Eof"
        /\ Last'.kind = "Line"
        /\ Last'.hist_ok
        /\ Len(run') = 2
        /\ Last'.comp.kind = "Ok"
        => /\ ~Last.cb
           /\ Last.result = "ContinueLine"
           /\ ~Last.ran
           /\ ~continuing_block
           /\ continuing_line
           /\ Last'.prompt = "ps2"
           /\ ~Last'.cb
           /\ Last'.ran
           /\ executed' =
                Append(executed,
                       Last.line \o <<NL>> \o Last'.line \o <<NL>>)
           /\ ~continuing_block'
           /\ full_input' = <<>> ]_vars

C9_Witness ==
    /\ Classified
    /\ Len(run) = 2
    /\ run[1].result = "ContinueLine"
    /\ ~run[1].cb
    /\ run[1].prompt = "ps1"
    /\ Last.comp.kind = "Ok"
    /\ Last.prompt = "ps2"
    /\ Last.ran
    /\ ~continuing_block
    /\ LastExecuted = run[1].line \o <<NL>> \o Last.line \o <<NL>>

\* C10: when add_history_entry fails for a line read, the loop does not
\* abort: the line is appended to the buffer and classified, and the loop
\* goes on to the next read.
C10_HistoryFailureTolerated ==
    run # <<>> /\ Last.kind = "Line" /\ ~Last.hist_ok
        => /\ pc = "loop"
           /\ Last.result # "None"

\* the line without the whitespace at its end, stated by what it is: the
\* shortest prefix that is followed by whitespace only
Trimmed(line) ==
    LET n == CHOOSE k \in 0..Len(line) :
                 /\ \A i \in (k + 1)..Len(line) : line[i] \in Whitespace
                 /\ k = 0 \/ line[k] \notin Whitespace
    IN SubSeq(line, 1, n)

\* C11: on every path by which the loop ends (end of input, a failure of the
\* line editor, a SystemExit from the iteration) save_history has been called
\* before run_shell returns; and every line that is classified was first
\* given to the history store without its trailing whitespace.
C11_HistoryKept ==
    [][ /\ Last'.kind \in {"Eof", "Other", "Io"} => saved'
        /\ Last'.kind = "Line" /\ Last'.err = "SystemExit" => saved'
        /\ pc' \in {"returned_ok", "returned_err"} => saved'
        /\ Last'.kind = "Line" /\ Last'.result # "None"
           => /\ Last'.hist_ok
              /\ history' = Append(history, Trimmed(Last'.line)) ]_vars

\* C11 case: a line with a trailing blank is read, recorded without it, and
\* its execution raises SystemExit; the history is saved and run_shell returns
C11_Witness ==
    /\ Classified
    /\ Last.line = <<"a", "a", "a", " ">>
    /\ history[Len(history)] = <<"a", "a", "a">>
    /\ Last.err = "SystemExit"
    /\ saved
    /\ pc = "returned_err"

\* C12: the loop ends only on end of input, on a failure of the line editor,
\* or on an iteration error that is a SystemExit (returned to the caller);
\* every other iteration error is reported and the loop reads again.
C12_LoopEndsOnlyOnExit ==
    [][ /\ pc' # "loop"
           => \/ Last'.kind \in {"Eof", "Other", "Io"}
              \/ Last'.kind = "Line" /\ Last'.err = "SystemExit"
        /\ Last'.err \notin {"None", "SystemExit"}
           => Last'.reported /\ pc' = "loop" ]_vars

\* the buffer ends with two line breaks or more
EndsWithTwoBreaks ==
    /\ Len(full_input) >= 2
    /\ full_input[Len(full_input)] = NL
    /\ full_input[Len(full_input) - 1] = NL

\* C13 as stated: between iterations the buffer is empty or ends with exactly
\* one line break, never with two or more.
C13_SingleTrailingBreak ==
    pc = "loop" =>
        \/ full_input = <<>>
        \/ full_input[Len(full_input)] = NL /\ ~EndsWithTwoBreaks

\* C13 amended: between iterations the buffer is empty or ends with a line
\* break; it ends with two line breaks or more exactly when the line just
\* read was blank, the buffer before it was not empty, and the verdict was
\* ContinueLine.
C13_TrailingBreaks ==
    pc = "loop" =>
        /\ full_input = <<>> \/ full_input[Len(full_input)] = NL
        /\ EndsWithTwoBreaks
           <=> /\ Classified
               /\ Len(run) >= 2
               /\ Last.line = <<>>
               /\ Last.result = "ContinueLine"

C13_Witness ==
    /\ pc = "loop"
    /\ EndsWithTwoBreaks
    /\ Classified
    /\ Last.line = <<>>
    /\ Last.comp.kind = "Eof"
    /\ ~continuing_block

\* C14 as stated: after an iteration that reads a blank line inside a block,
\* the block mode is off and the buffer empty, whatever the compile outcome.
C14_BlankLineAlwaysResolves ==
    Classified /\ Last.cb /\ Last.line = <<>>
        => ~continuing_block /\ full_input = <<>>

\* C14 amended: after an iteration that reads a blank line inside a block,
\* the block mode is off and the buffer empty (the block was run or reported
\* as a syntax error), unless the verdict is ContinueLine (end of input or an
\* unterminated triple-quoted string): then the block mode stays on and the
\* buffer is kept.
C14_BlankLineResolvesUnlessContinueLine ==
    Classified /\ Last.cb /\ Last.line = <<>>
        => IF Last.result = "ContinueLine"
           THEN /\ Last.comp.kind \in {"Eof", "UnterminatedTripleQuotedString",
                                       "UnclosedStringError"}
                /\ continuing_block
                /\ full_input = Last.source
           ELSE /\ Last.comp.kind \notin {"Eof",
                                          "UnterminatedTripleQuotedString"}
                /\ Last.ran \/ Last.err = "SyntaxError"
                /\ ~continuing_block
                /\ full_input = <<>>

\* C14 case: the blank line inside a block is answered by end of input, and
\* the driver stays in the block with the buffer kept
C14_Witness ==
    /\ Classified
    /\ Last.cb
    /\ Last.line = <<>>
    /\ Last.comp.kind = "Eof"
    /\ Last.result = "ContinueLine"
    /\ continuing_block
    /\ full_input = Last.source

\* C15: inside a block, a non-empty line with which the buffer compiles: no
\* unit is run, the verdict is Ok, the block mode stays on and the buffer,
\* with the line just appended, is kept.
C15_CompiledLineInsideBlockHeld ==
    [][ /\ Last'.kind = "Line"
        /\ Last'.hist_ok
        /\ Last'.cb
        /\ Last'.line # <<>>
        /\ Last'.comp.kind = "Ok"
        => /\ continuing_block
           /\ ~Last'.ran
           /\ executed' = executed
           /\ Last'.result = "Ok"
           /\ Last'.err = "None"
           /\ continuing_block'
           /\ full_input # <<>>
           /\ full_input' = full_input \o Last'.line \o <<NL>>
           /\ pc' = "loop" ]_vars

C15_Witness ==
    /\ Classified
    /\ Last.cb
    /\ Last.line # <<>>
    /\ Last.comp.kind = "Ok"
    /\ Last.result = "Ok"
    /\ ~Last.ran
    /\ continuing_block
    /\ full_input = Last.source

\* C16: for an unclosed-string diagnostic the classifier returns ContinueLine
\* when three equal quote characters start at the diagnostic's offset in the
\* compiled source, and Failed in every other case (offset past the end,
\* fewer than three characters left, characters that differ, three equal
\* characters that are not quotes).
C16_TripleQuoteLookback ==
    Classified /\ Last.comp.kind = "UnclosedStringError"
        => IF OpensWithTripleQuote(Last)
           THEN Last.result = "ContinueLine"
           ELSE Last.result = "PyErr" /\ Last.err = "SyntaxError"

\* C17: the prompt of a read is the secondary one exactly when the block mode
\* is on or the verdict of the iteration just before was ContinueLine (an
\* older ContinueLine does not count); a ContinueLine verdict leaves the
\* block mode and the buffer as they were after the append.
C17_LineContinuationLastsOneLine ==
    [][ /\ prompt_name' = "ps2"
           <=> \/ continuing_block
               \/ run # <<>> /\ Last.kind = "Line"
                             /\ Last.result = "ContinueLine"
        /\ Last'.prompt = prompt_name'
        /\ Last'.result = "ContinueLine"
           => /\ continuing_block' = continuing_block
              /\ full_input' =
                   (IF full_input = <<>> THEN Last'.line
                    ELSE full_input \o Last'.line) \o <<NL>> ]_vars

\* C17 case: outside a block, a second read in a row is prompted with ps2
\* because the line before was answered ContinueLine, and is answered so too
C17_Witness ==
    /\ Classified
    /\ Len(run) = 2
    /\ run[1].result = "ContinueLine"
    /\ run[1].prompt = "ps1"
    /\ Last.prompt = "ps2"
    /\ ~Last.cb
    /\ Last.result = "ContinueLine"
    /\ ~continuing_block
    /\ full_input = Last.source

\* C18: at every prompt selection the primary prompt is chosen exactly when
\* the buffer is empty; the buffer is not empty exactly when the block mode
\* is on or the verdict just before was ContinueLine; and the block mode on
\* implies a buffer that is not empty.
C18_PrimaryPromptIffEmptyBuffer ==
    [][ /\ prompt_name' = "ps1" <=> full_input = <<>>
        /\ full_input # <<>>
           <=> \/ continuing_block
               \/ run # <<>> /\ Last.kind = "Line"
                             /\ Last.result = "ContinueLine"
        /\ continuing_block => full_input # <<>> ]_vars

\* C18 case: the buffer is kept by a line continuation alone
C18_Witness ==
    /\ Classified
    /\ pc = "loop"
    /\ full_input # <<>>
    /\ ~continuing_block
    /\ continuing_line
    /\ Last.prompt = "ps1"

RECURSIVE Breaks(_)
Breaks(units) ==
    IF units = <<>> THEN 0
    ELSE Cardinality({i \in 1..Len(units[1]) : units[1][i] = NL})
         + Breaks(Tail(units))

\* C20: a unit is run only when the line just read is blank or the block mode
\* is off; it is compiled from the whole buffer, and the buffer is emptied
\* and the block mode turned off in the same iteration; so the units run
\* never hold more lines than were read (no line is in two units).
C20_UnitsAreDisjoint ==
    [][ /\ executed' # executed \/ Last'.ran
           => /\ Last'.line = <<>> \/ ~continuing_block
              /\ executed' =
                   Append(executed,
                          (IF full_input = <<>> THEN Last'.line
                           ELSE full_input \o Last'.line) \o <<NL>>)
              /\ full_input' = <<>>
              /\ ~continuing_block'
        /\ Breaks(executed') <= Len(history') ]_vars

\* C20 case: a second unit is run, made of the lines read after the first
C20_Witness ==
    /\ Classified
    /\ Len(executed) = 2
    /\ Len(run) = 2
    /\ Last.ran
    /\ Last.cb
    /\ Last.line = <<>>
    /\ LastExecuted = run[1].line \o <<NL, NL>>
    /\ Breaks(executed) <= Len(history)
    /\ full_input = <<>>

TypeOK ==
    /\ continuing_block \in BOOLEAN
    /\ continuing_line \in BOOLEAN
    /\ prompt_name \in {"ps1", "ps2"}
    /\ pc \in {"loop", "returned_ok", "returned_err", "panicked"}
    /\ saved \in BOOLEAN
    /\ nreads \in 0..MaxReads
====
